---- MODULE Spec2Model ----
(***************************************************************************)
(* Grid cell neighborhoods (Kiro/c): Position, Grid, PositionSet and the   *)
(* NeighborhoodCalculator, modelled from the C sources.                    *)
(*                                                                         *)
(* A pointer is modelled as a record with an isnull field.  A PositionSet  *)
(* is its positions array (the slots written so far), its size and its     *)
(* capacity.  The heap is an oracle: the set of allocation requests of one *)
(* call (numbered 1, 2, ... in program order) that fail.                   *)
(***************************************************************************)
EXTENDS Integers, Sequences, FiniteSets, TLC

VARIABLES
    grid,          \* the caller's Grid* (NULL or the object grid_create built)
    create_args,   \* height, width, buffer-is-NULL and count given to grid_create
    last_call,     \* the calculator call whose result the caller holds
    threshold,     \* distance_threshold of the last calculator call
    prev_error,    \* what the caller's ErrorCode variable held when the call began
    error_code,    \* the caller's ErrorCode variable
    cells,         \* PositionSet* returned by neighborhood_calculator_get_cells
    count,         \* int returned by neighborhood_calculator_count
    alloc_failed,  \* whether an allocation request of the last call failed
    crashed,       \* the last call dereferenced a NULL positive_cells array
    first,         \* the first calculator call made on the current grid
    pair,          \* two positive cells and the three counts taken for them
    unit,          \* locals of a caller of single functions: arguments, results
    pset           \* a PositionSet under position_set_add / position_set_clear

callerVars ==
    <<grid, create_args, last_call, threshold, prev_error, error_code, cells,
      count, alloc_failed, crashed>>

vars == <<callerVars, first, pair, unit, pset>>

----------------------------------------------------------------------------
(* Bounds of the model *)

MaxH == 3

MaxW == 3

MaxN == 4

MaxCells == 2

MaxAllocs == 4

WideW == 17

\* width of the C int in the calls of the Position functions
IntBits == 3

\* calls a caller makes on one PositionSet
MaxOps == 3

----------------------------------------------------------------------------
(* Program constants *)

INITIAL_CAPACITY == 16

ERROR_NONE == "ERROR_NONE"

ERROR_INVALID_GRID_DIMENSIONS == "ERROR_INVALID_GRID_DIMENSIONS"

ERROR_POSITION_OUT_OF_BOUNDS == "ERROR_POSITION_OUT_OF_BOUNDS"

ERROR_INVALID_DISTANCE_THRESHOLD == "ERROR_INVALID_DISTANCE_THRESHOLD"

ERROR_MEMORY_ALLOCATION == "ERROR_MEMORY_ALLOCATION"

ErrorCode ==
    {ERROR_NONE, ERROR_INVALID_GRID_DIMENSIONS, ERROR_POSITION_OUT_OF_BOUNDS,
     ERROR_INVALID_DISTANCE_THRESHOLD, ERROR_MEMORY_ALLOCATION}

abs(x) == IF x < 0 THEN -x ELSE x

----------------------------------------------------------------------------
(* position.c *)

position_create(row, column) == [row |-> row, column |-> column]

\* int: IntBits wide, two's complement
INT_MIN == -(2 ^ (IntBits - 1))

INT_MAX == 2 ^ (IntBits - 1) - 1

InInt(x) == INT_MIN <= x /\ x <= INT_MAX

\* what an int operation whose exact result is x leaves when it does not trap
Wrap(x) == ((x - INT_MIN) % (2 ^ IntBits)) + INT_MIN

\* some step of position_manhattan_distance overflows int: the behaviour is
\* undefined, and the call returns the wrapped value or traps
ManhattanOverflows(pos1, pos2) ==
    LET row_sub == pos1.row - pos2.row
        col_sub == pos1.column - pos2.column
    IN  \/ ~InInt(row_sub) \/ ~InInt(col_sub)
        \/ ~InInt(abs(row_sub)) \/ ~InInt(abs(col_sub))
        \/ ~InInt(abs(row_sub) + abs(col_sub))

\* the value returned when no step traps
position_manhattan_distance(pos1, pos2) ==
    LET row_diff == Wrap(abs(Wrap(pos1.row - pos2.row)))
        col_diff == Wrap(abs(Wrap(pos1.column - pos2.column)))
    IN  Wrap(row_diff + col_diff)

position_equals(pos1, pos2) ==
    pos1.row = pos2.row /\ pos1.column = pos2.column

----------------------------------------------------------------------------
(* The heap oracle: n requests made so far in this call, the requests that *)
(* fail, and whether one has failed.  It also keeps the books of the       *)
(* PositionSets of the call: how many were made (a set's id is its number), *)
(* which are live, the ids given to position_set_destroy in order, and      *)
(* whether a set was used after it was destroyed.                           *)

NewHeap(fails) ==
    [n |-> 0, fails |-> fails, failed |-> FALSE,
     made |-> 0, live |-> {}, destroyed |-> <<>>, stale |-> FALSE]

\* the next malloc/realloc request succeeds
AllocOk(h) == (h.n + 1) \notin h.fails

\* the heap after the next request
AllocNext(h) ==
    [h EXCEPT !.n = @ + 1, !.failed = @ \/ ((h.n + 1) \in h.fails)]

----------------------------------------------------------------------------
(* grid.c *)

NullGrid ==
    [isnull |-> TRUE, height |-> 0, width |-> 0, positive_cells |-> <<>>,
     cells_null |-> TRUE, positive_cell_count |-> 0]

\* mutant: a dimension of 0 is accepted
grid_create_ZeroOk(height, width, buf, buf_null, positive_cell_count, h) ==
    IF height < 0 \/ width < 0 THEN [grid |-> NullGrid, heap |-> h]
    ELSE IF ~AllocOk(h) THEN [grid |-> NullGrid, heap |-> AllocNext(h)]
    ELSE LET h1 == AllocNext(h) IN
         IF positive_cell_count > 0 /\ ~buf_null
         THEN IF ~AllocOk(h1) THEN [grid |-> NullGrid, heap |-> AllocNext(h1)]
              ELSE [grid |-> [isnull |-> FALSE, height |-> height, width |-> width,
                              positive_cells |-> SubSeq(buf, 1, positive_cell_count),
                              cells_null |-> FALSE,
                              positive_cell_count |-> positive_cell_count],
                    heap |-> AllocNext(h1)]
         ELSE [grid |-> [isnull |-> FALSE, height |-> height, width |-> width,
                         positive_cells |-> <<>>, cells_null |-> TRUE,
                         positive_cell_count |-> positive_cell_count],
               heap |-> h1]

\* grid_create(height, width, positive_cells, positive_cell_count): buf is the
\* caller's buffer (buf_null: the pointer is NULL).  Returns [grid, heap].
grid_create(height, width, buf, buf_null, positive_cell_count, h) ==
    IF height <= 0 \/ width <= 0 THEN [grid |-> NullGrid, heap |-> h]
    ELSE IF ~AllocOk(h) THEN [grid |-> NullGrid, heap |-> AllocNext(h)]
    ELSE LET h1 == AllocNext(h) IN
         IF positive_cell_count > 0 /\ ~buf_null
         THEN IF ~AllocOk(h1) THEN [grid |-> NullGrid, heap |-> AllocNext(h1)]
              ELSE [grid |-> [isnull |-> FALSE, height |-> height, width |-> width,
                              positive_cells |-> SubSeq(buf, 1, positive_cell_count),
                              cells_null |-> FALSE,
                              positive_cell_count |-> positive_cell_count],
                    heap |-> AllocNext(h1)]
         ELSE [grid |-> [isnull |-> FALSE, height |-> height, width |-> width,
                         positive_cells |-> <<>>, cells_null |-> TRUE,
                         positive_cell_count |-> positive_cell_count],
               heap |-> h1]

\* mutant: the row one past the last is accepted
grid_is_valid_position_Inclusive(g, pos) ==
    IF g.isnull THEN FALSE
    ELSE pos.row >= 0 /\ pos.row <= g.height /\
         pos.column >= 0 /\ pos.column < g.width

\* mutant: the upper bound on the row is not checked
grid_is_valid_position_NoRowLimit(g, pos) ==
    IF g.isnull THEN FALSE
    ELSE pos.row >= 0 /\ pos.column >= 0 /\ pos.column < g.width

grid_is_valid_position(g, pos) ==
    IF g.isnull THEN FALSE
    ELSE pos.row >= 0 /\ pos.row < g.height /\
         pos.column >= 0 /\ pos.column < g.width

\* the loop of grid_validate_positions: false at the first invalid cell
grid_validate_positions(g) ==
    IF g.isnull THEN FALSE
    ELSE \A i \in 1..g.positive_cell_count :
            grid_is_valid_position(g, g.positive_cells[i])

\* the loop of grid_validate_positions or of get_cells reads positive_cells[i]
\* through a NULL array
ReadsNullCells(g) ==
    ~g.isnull /\ g.cells_null /\ g.positive_cell_count > 0

----------------------------------------------------------------------------
(* boundary_handler.h: the definition is not among the sources *)

boundary_handler_is_within_bounds(pos, g) ==
    IF g.isnull THEN FALSE
    ELSE 0 <= pos.row /\ pos.row < g.height /\
         0 <= pos.column /\ pos.column < g.width

----------------------------------------------------------------------------
(* position_set.c *)

NullSet ==
    [isnull |-> TRUE, id |-> 0, positions |-> <<>>, size |-> 0, capacity |-> 0]

\* Returns [set, heap]: two mallocs, the struct and the positions array.
position_set_create(h) ==
    IF ~AllocOk(h) THEN [set |-> NullSet, heap |-> AllocNext(h)]
    ELSE LET h1 == AllocNext(h) IN
         IF ~AllocOk(h1) THEN [set |-> NullSet, heap |-> AllocNext(h1)]
         ELSE [set |-> [isnull |-> FALSE, id |-> h.made + 1, positions |-> <<>>,
                        size |-> 0, capacity |-> INITIAL_CAPACITY],
               heap |-> [AllocNext(h1) EXCEPT !.made = @ + 1,
                                              !.live = @ \cup {h.made + 1}]]

\* mutant: the set is not freed
position_set_destroy_Leak(set, h) == h

\* position_set_destroy(set): both blocks are freed; NULL is left alone.
\* Returns the heap.
position_set_destroy(set, h) ==
    IF set.isnull THEN h
    ELSE [h EXCEPT !.live = @ \ {set.id}, !.destroyed = Append(@, set.id)]

\* the heap after a function read or wrote through the pointer set
Touch(set, h) ==
    [h EXCEPT !.stale = @ \/ (~set.isnull /\ set.id \notin h.live)]

\* mutant: the scan stops one slot early
position_set_contains_SkipLast(set, pos) ==
    IF set.isnull THEN FALSE
    ELSE \E i \in 1..(set.size - 1) : position_equals(set.positions[i], pos)

position_set_contains(set, pos) ==
    IF set.isnull THEN FALSE
    ELSE \E i \in 1..set.size : position_equals(set.positions[i], pos)

position_set_size(set) == IF set.isnull THEN 0 ELSE set.size

\* mutant: the position is written but size is not incremented
StoreAt_NoIncrement(set, pos) ==
    [set EXCEPT
        !.positions = IF set.size < Len(@)
                      THEN [@ EXCEPT ![set.size + 1] = pos]
                      ELSE Append(@, pos)]

\* positions[size++] = pos: the slot is rewritten if a clear left it behind
StoreAt(set, pos) ==
    [set EXCEPT
        !.positions = IF set.size < Len(@)
                      THEN [@ EXCEPT ![set.size + 1] = pos]
                      ELSE Append(@, pos),
        !.size = @ + 1]

\* mutant: the position is stored without looking for it first
position_set_add_NoCheck(set, pos, h) ==
    IF set.isnull THEN [set |-> set, heap |-> h, added |-> FALSE]
    ELSE IF set.size >= set.capacity
    THEN IF ~AllocOk(h)
         THEN [set |-> set, heap |-> AllocNext(h), added |-> FALSE]
         ELSE [set |-> StoreAt([set EXCEPT !.capacity = @ * 2], pos),
               heap |-> AllocNext(h), added |-> TRUE]
    ELSE [set |-> StoreAt(set, pos), heap |-> h, added |-> TRUE]

\* mutant: the capacity is doubled before the result of realloc is looked at
position_set_add_GrowAnyway(set, pos, h) ==
    IF set.isnull THEN [set |-> set, heap |-> h, added |-> FALSE]
    ELSE IF position_set_contains(set, pos)
    THEN [set |-> set, heap |-> h, added |-> FALSE]
    ELSE IF set.size >= set.capacity
    THEN IF ~AllocOk(h)
         THEN [set |-> [set EXCEPT !.capacity = @ * 2], heap |-> AllocNext(h),
               added |-> FALSE]
         ELSE [set |-> StoreAt([set EXCEPT !.capacity = @ * 2], pos),
               heap |-> AllocNext(h), added |-> TRUE]
    ELSE [set |-> StoreAt(set, pos), heap |-> h, added |-> TRUE]

\* Returns [set, heap, added].
position_set_add(set, pos, h) ==
    IF set.isnull THEN [set |-> set, heap |-> h, added |-> FALSE]
    ELSE IF position_set_contains(set, pos)
    THEN [set |-> set, heap |-> h, added |-> FALSE]
    ELSE IF set.size >= set.capacity
    THEN IF ~AllocOk(h)
         THEN [set |-> set, heap |-> AllocNext(h), added |-> FALSE]
         ELSE [set |-> StoreAt([set EXCEPT !.capacity = @ * 2], pos),
               heap |-> AllocNext(h), added |-> TRUE]
    ELSE [set |-> StoreAt(set, pos), heap |-> h, added |-> TRUE]

\* mutant: the set is left as it is
position_set_clear_Keep(set) == set

position_set_clear(set) ==
    IF set.isnull THEN set ELSE [set EXCEPT !.size = 0]

----------------------------------------------------------------------------
(* neighborhood_calculator.c *)

\* mutant: abs() is left out
remaining_distance_NoAbs(distance_threshold, delta_row) ==
    distance_threshold - delta_row

remaining_distance(distance_threshold, delta_row) ==
    distance_threshold - abs(delta_row)

\* TLC evaluates an operator's arguments when they are first used: Strict(st, e)
\* is e, with the loop state st evaluated first, so that the loops below run
\* one iteration after the other.
Strict(st, e) == IF st.heap.n >= 0 THEN e ELSE e

RECURSIVE EnumCols_Exclusive(_, _, _, _, _, _)
\* mutant: the loop runs while delta_col < remaining_distance
EnumCols_Exclusive(center, g, delta_row, delta_col, remaining, st) ==
    IF delta_col >= remaining THEN st
    ELSE LET candidate == position_create(center.row + delta_row,
                                          center.column + delta_col)
         IN  IF boundary_handler_is_within_bounds(candidate, g)
             THEN LET r == position_set_add(st.set, candidate, st.heap)
                      st1 == [set |-> r.set, heap |-> r.heap]
                  IN  Strict(st1, EnumCols_Exclusive(center, g, delta_row,
                                                     delta_col + 1, remaining, st1))
             ELSE EnumCols_Exclusive(center, g, delta_row, delta_col + 1,
                                     remaining, st)

RECURSIVE EnumCols_NoBoundsCheck(_, _, _, _, _, _)
\* mutant: every candidate is added, inside the grid or not
EnumCols_NoBoundsCheck(center, g, delta_row, delta_col, remaining, st) ==
    IF delta_col > remaining THEN st
    ELSE LET candidate == position_create(center.row + delta_row,
                                          center.column + delta_col)
             r == position_set_add(st.set, candidate, st.heap)
             st1 == [set |-> r.set, heap |-> r.heap]
         IN  Strict(st1, EnumCols_NoBoundsCheck(center, g, delta_row,
                                                delta_col + 1, remaining, st1))

RECURSIVE EnumCols(_, _, _, _, _, _)
\* the delta_col loop of enumerate_neighborhood; st is [set, heap]
EnumCols(center, g, delta_row, delta_col, remaining, st) ==
    IF delta_col > remaining THEN st
    ELSE LET candidate == position_create(center.row + delta_row,
                                          center.column + delta_col)
         IN  IF boundary_handler_is_within_bounds(candidate, g)
             THEN LET r == position_set_add(st.set, candidate, st.heap)
                      st1 == [set |-> r.set, heap |-> r.heap]
                  IN  Strict(st1, EnumCols(center, g, delta_row, delta_col + 1,
                                           remaining, st1))
             ELSE EnumCols(center, g, delta_row, delta_col + 1, remaining, st)

RECURSIVE EnumRows_Exclusive(_, _, _, _, _)
\* mutant: the loop runs while delta_row < distance_threshold
EnumRows_Exclusive(center, distance_threshold, g, delta_row, st) ==
    IF delta_row >= distance_threshold THEN st
    ELSE LET remaining == distance_threshold - abs(delta_row)
             st1 == EnumCols(center, g, delta_row, -remaining, remaining, st)
         IN  Strict(st1, EnumRows_Exclusive(center, distance_threshold, g,
                                            delta_row + 1, st1))

RECURSIVE EnumRows(_, _, _, _, _)
\* the delta_row loop of enumerate_neighborhood
EnumRows(center, distance_threshold, g, delta_row, st) ==
    IF delta_row > distance_threshold THEN st
    ELSE LET remaining == remaining_distance(distance_threshold, delta_row)
             st1 == EnumCols(center, g, delta_row, -remaining, remaining, st)
         IN  Strict(st1, EnumRows(center, distance_threshold, g, delta_row + 1,
                                  st1))

\* mutant: delta_row starts one past -distance_threshold
enumerate_neighborhood_SkipFirstRow(center, distance_threshold, g, h) ==
    LET c == position_set_create(h) IN
    IF c.set.isnull THEN c
    ELSE EnumRows(center, distance_threshold, g, -distance_threshold + 1, c)

\* Returns [set, heap]; set is NULL when position_set_create failed.
enumerate_neighborhood(center, distance_threshold, g, h) ==
    LET c == position_set_create(h) IN
    IF c.set.isnull THEN c
    ELSE EnumRows(center, distance_threshold, g, -distance_threshold, c)

max_possible_distance(g) == (g.height - 1) + (g.width - 1)

RECURSIVE FillCols_ShortRow(_, _, _, _)
\* mutant: the loop runs while col < grid->width - 1
FillCols_ShortRow(g, row, col, st) ==
    IF col >= g.width - 1 THEN st
    ELSE LET r == position_set_add(st.set, position_create(row, col), st.heap)
             st1 == [set |-> r.set, heap |-> r.heap]
         IN  Strict(st1, FillCols_ShortRow(g, row, col + 1, st1))

RECURSIVE FillCols(_, _, _, _)
\* the col loop of the early-termination branch
FillCols(g, row, col, st) ==
    IF col >= g.width THEN st
    ELSE LET r == position_set_add(st.set, position_create(row, col), st.heap)
             st1 == [set |-> r.set, heap |-> r.heap]
         IN  Strict(st1, FillCols(g, row, col + 1, st1))

RECURSIVE FillRows_ShortColumn(_, _, _)
\* mutant: the loop runs while row < grid->height - 1
FillRows_ShortColumn(g, row, st) ==
    IF row >= g.height - 1 THEN st
    ELSE LET st1 == FillCols(g, row, 0, st)
         IN  Strict(st1, FillRows_ShortColumn(g, row + 1, st1))

RECURSIVE FillRows(_, _, _)
\* the row loop of the early-termination branch
FillRows(g, row, st) ==
    IF row >= g.height THEN st
    ELSE LET st1 == FillCols(g, row, 0, st)
         IN  Strict(st1, FillRows(g, row + 1, st1))

RECURSIVE UnionLoop(_, _, _)
\* the j loop that adds one neighborhood to all_cells
UnionLoop(neighborhood, j, st) ==
    IF j >= position_set_size(neighborhood) THEN st
    ELSE LET r == position_set_add(st.set, neighborhood.positions[j + 1], st.heap)
             st1 == [set |-> r.set, heap |-> r.heap]
         IN  Strict(st1, UnionLoop(neighborhood, j + 1, st1))

RECURSIVE CellLoop_FirstOnly(_, _, _, _, _)
\* mutant: the i loop stops after the first positive cell
CellLoop_FirstOnly(g, distance_threshold, i, e1, st) ==
    IF i >= 1 \/ i >= g.positive_cell_count
    THEN [ret |-> st.set, error_code |-> e1, heap |-> st.heap]
    ELSE LET nb == enumerate_neighborhood(g.positive_cells[i + 1],
                                          distance_threshold, g, st.heap)
         IN  IF nb.set.isnull
             THEN [ret |-> NullSet, error_code |-> ERROR_MEMORY_ALLOCATION,
                   heap |-> position_set_destroy(st.set, nb.heap)]
             ELSE LET u == UnionLoop(nb.set, 0,
                                     [set |-> st.set,
                                      heap |-> Touch(nb.set,
                                                     Touch(st.set, nb.heap))])
                      st1 == [set |-> u.set,
                              heap |-> position_set_destroy(nb.set, u.heap)]
                  IN  Strict(st1, CellLoop_FirstOnly(g, distance_threshold, i + 1,
                                                     e1, st1))

RECURSIVE CellLoop_LastWins(_, _, _, _, _)
\* mutant: each neighborhood replaces all_cells instead of being added to it
CellLoop_LastWins(g, distance_threshold, i, e1, st) ==
    IF i >= g.positive_cell_count
    THEN [ret |-> st.set, error_code |-> e1, heap |-> st.heap]
    ELSE LET nb == enumerate_neighborhood(g.positive_cells[i + 1],
                                          distance_threshold, g, st.heap)
         IN  IF nb.set.isnull
             THEN [ret |-> NullSet, error_code |-> ERROR_MEMORY_ALLOCATION,
                   heap |-> position_set_destroy(st.set, nb.heap)]
             ELSE LET u == UnionLoop(nb.set, 0,
                                     [set |-> position_set_clear(st.set),
                                      heap |-> Touch(nb.set,
                                                     Touch(st.set, nb.heap))])
                      st1 == [set |-> u.set,
                              heap |-> position_set_destroy(nb.set, u.heap)]
                  IN  Strict(st1, CellLoop_LastWins(g, distance_threshold, i + 1,
                                                    e1, st1))

RECURSIVE CellLoop(_, _, _, _, _)
\* the i loop over grid->positive_cells; returns [ret, error_code, heap]; e1 is
\* what *error_code holds when the loop begins.  all_cells is destroyed when a
\* neighborhood cannot be made; each neighborhood is destroyed after its union.
CellLoop(g, distance_threshold, i, e1, st) ==
    IF i >= g.positive_cell_count
    THEN [ret |-> st.set, error_code |-> e1, heap |-> st.heap]
    ELSE LET nb == enumerate_neighborhood(g.positive_cells[i + 1],
                                          distance_threshold, g, st.heap)
         IN  IF nb.set.isnull
             THEN [ret |-> NullSet, error_code |-> ERROR_MEMORY_ALLOCATION,
                   heap |-> position_set_destroy(st.set, nb.heap)]
             ELSE LET u == UnionLoop(nb.set, 0,
                                     [set |-> st.set,
                                      heap |-> Touch(nb.set,
                                                     Touch(st.set, nb.heap))])
                      st1 == [set |-> u.set,
                              heap |-> position_set_destroy(nb.set, u.heap)]
                  IN  Strict(st1, CellLoop(g, distance_threshold, i + 1, e1, st1))

\* *error_code is not assigned again after the entry of get_cells
KEPT == "KEPT"

\* !grid || grid->height <= 0 || grid->width <= 0
InvalidGridDimensions(g) == g.isnull \/ g.height <= 0 \/ g.width <= 0

\* mutant: -1 passes the check
InvalidDistanceThreshold_Lax(distance_threshold) == distance_threshold < -1

\* distance_threshold < 0
InvalidDistanceThreshold(distance_threshold) == distance_threshold < 0

\* mutant: the empty-grid return is missing
EmptyGridCase_Never(g) == FALSE

\* grid->positive_cell_count == 0
EmptyGridCase(g) == g.positive_cell_count = 0

\* distance_threshold >= max_possible_distance
EarlyTermination(g, distance_threshold) ==
    distance_threshold >= max_possible_distance(g)

\* neighborhood_calculator_get_cells after its first statement.  Returns
\* [ret, error_code, heap]: the returned PositionSet*, what *error_code is set
\* to (KEPT: it is not assigned), and the heap oracle after the call.
GetCellsBody(g, distance_threshold, h) ==
    IF InvalidGridDimensions(g)
    THEN [ret |-> NullSet, error_code |-> ERROR_INVALID_GRID_DIMENSIONS, heap |-> h]
    ELSE IF InvalidDistanceThreshold(distance_threshold)
    THEN [ret |-> NullSet, error_code |-> ERROR_INVALID_DISTANCE_THRESHOLD, heap |-> h]
    ELSE IF ~grid_validate_positions(g)
    THEN [ret |-> NullSet, error_code |-> ERROR_POSITION_OUT_OF_BOUNDS, heap |-> h]
    ELSE LET all_cells == position_set_create(h) IN
         IF all_cells.set.isnull
         THEN [ret |-> NullSet, error_code |-> ERROR_MEMORY_ALLOCATION,
               heap |-> all_cells.heap]
         ELSE IF EmptyGridCase(g)
         THEN [ret |-> all_cells.set, error_code |-> KEPT,
               heap |-> all_cells.heap]
         ELSE IF EarlyTermination(g, distance_threshold)
         THEN LET st == FillRows(g, 0, all_cells)
              IN  [ret |-> st.set, error_code |-> KEPT,
                   heap |-> st.heap]
         ELSE CellLoop(g, distance_threshold, 0, KEPT, all_cells)

\* mutant: *error_code is not reset on entry
ErrorAtEntry_Kept(e0) == e0

\* *error_code = ERROR_NONE on entry, whatever e0 the variable held
ErrorAtEntry(e0) == ERROR_NONE

\* The call with *error_code holding e0 on entry, given what the rest of the
\* function (body) does: [ret, error_code, heap].
neighborhood_calculator_get_cells(body, e0) ==
    [body EXCEPT !.error_code = IF @ = KEPT THEN ErrorAtEntry(e0) ELSE @]

\* neighborhood_calculator_count, given the result r of its call of
\* neighborhood_calculator_get_cells: [ret, error_code, heap], ret the int.
neighborhood_calculator_count(r) ==
    IF r.ret.isnull
    THEN [ret |-> -1, error_code |-> r.error_code, heap |-> r.heap]
    ELSE [ret |-> position_set_size(r.ret), error_code |-> r.error_code,
          heap |-> position_set_destroy(r.ret, Touch(r.ret, r.heap))]

\* The call gets past the two checks that precede grid_validate_positions.
ReachesValidation(g, distance_threshold) ==
    ~InvalidGridDimensions(g) /\ ~InvalidDistanceThreshold(distance_threshold)

----------------------------------------------------------------------------
(* The caller: inputs and the API calls it makes *)

NoArgs ==
    [given |-> FALSE, by_hand |-> FALSE, height |-> 0, width |-> 0,
     buf_null |-> TRUE, positive_cell_count |-> 0, alloc_failed |-> FALSE]

Heights == -1..MaxH

Widths == -1..MaxW

Thresholds == -1..MaxN

\* positions a caller puts in its buffer: the cells of the grid and, past each
\* of its four edges, one position that fails exactly one bounds comparison
CellDomain(height, width) ==
    {position_create(r, c) : r \in 0..(height - 1), c \in 0..(width - 1)}
    \cup {position_create(-1, 0), position_create(0, -1),
          position_create(height, 0), position_create(0, width)}

Buffers(height, width, maxcells) ==
    UNION {[1..n -> CellDomain(height, width)] : n \in 0..maxcells}

\* The requests of one call that fail.  No set of these grids outgrows its
\* initial capacity, so every request is a create and the call ends at the
\* first failure: one failing request stands for every set with that minimum.
FailSets == {{}} \cup {{k} : k \in 1..MaxAllocs}

\* no calculator call has been made on the grid yet
NoFirst ==
    [made |-> FALSE, call |-> "none", threshold |-> 0, error_code |-> ERROR_NONE,
     cells |-> NullSet, count |-> 0, alloc_failed |-> FALSE]

\* the variables of the function-level callers, when they are not running
Idle == [running |-> FALSE]

\* the caller of grid_create and the calculator, before its first call
CallerInit ==
    /\ grid = NullGrid
    /\ create_args = NoArgs
    /\ last_call = "none"
    /\ threshold = 0
    /\ prev_error = ERROR_NONE
    /\ error_code = ERROR_NONE
    /\ cells = NullSet
    /\ count = 0
    /\ alloc_failed = FALSE
    /\ crashed = FALSE
    /\ first = NoFirst

Init ==
    /\ CallerInit
    /\ pair = Idle
    /\ unit = Idle
    /\ pset = Idle

\* grid = grid_create(height, width, buf, positive_cell_count)
GridCreate(height, width, buf, buf_null, positive_cell_count, fails) ==
    /\ last_call = "none"
    /\ ~create_args.given
    /\ LET r == grid_create(height, width, buf, buf_null, positive_cell_count,
                            NewHeap(fails))
       IN  /\ grid' = r.grid
           /\ create_args' =
                 [given |-> TRUE, by_hand |-> FALSE, height |-> height,
                  width |-> width, buf_null |-> buf_null,
                  positive_cell_count |-> positive_cell_count,
                  alloc_failed |-> r.heap.failed]
    /\ UNCHANGED <<last_call, threshold, prev_error, error_code, cells, count,
                   alloc_failed, crashed>>

\* Grid g = {height, width, buf, n}: the struct is public, and a caller can
\* fill one in with dimensions grid_create refuses
GridByHand(height, width, buf) ==
    /\ last_call = "none"
    /\ ~create_args.given
    /\ height <= 0 \/ width <= 0
    /\ grid' = [isnull |-> FALSE, height |-> height, width |-> width,
                positive_cells |-> buf, cells_null |-> FALSE,
                positive_cell_count |-> Len(buf)]
    /\ create_args' =
          [given |-> TRUE, by_hand |-> TRUE, height |-> height, width |-> width,
           buf_null |-> FALSE, positive_cell_count |-> Len(buf),
           alloc_failed |-> FALSE]
    /\ UNCHANGED <<last_call, threshold, prev_error, error_code, cells, count,
                   alloc_failed, crashed>>

\* grid_destroy(grid); a NULL grid is left alone
GridDestroy ==
    /\ last_call = "none"
    /\ create_args.given
    /\ grid' = NullGrid
    /\ create_args' = NoArgs
    /\ first' = NoFirst
    /\ UNCHANGED <<last_call, threshold, prev_error, error_code, cells, count,
                   alloc_failed, crashed>>
    /\ UNCHANGED <<pair, unit, pset>>

\* what positive_cells[i] yields when positive_cells is NULL but the count is
\* positive: any positions at all, if the read does not trap
JunkCells(g) == [1..g.positive_cell_count -> CellDomain(g.height, g.width)]

\* The grids get_cells may compute with: the grid itself or, when it reads
\* positive_cells[i] through NULL and the read does not trap, any positions.
GridsRead(g, distance_threshold) ==
    IF ReachesValidation(g, distance_threshold) /\ ReadsNullCells(g)
    THEN {[g EXCEPT !.positive_cells = junk] : junk \in JunkCells(g)}
    ELSE {g}

\* the read of positive_cells[i] through NULL traps: the call never returns
Crash(distance_threshold, e0) ==
    /\ ReachesValidation(grid, distance_threshold)
    /\ ReadsNullCells(grid)
    /\ last_call' = "crash"
    /\ crashed' = TRUE
    /\ error_code' = ErrorAtEntry(e0)
    /\ alloc_failed' = FALSE
    /\ threshold' = distance_threshold
    /\ prev_error' = e0
    /\ UNCHANGED <<grid, create_args, cells, count>>

\* cells = neighborhood_calculator_get_cells(grid, distance_threshold, &error)
\* with the variable error holding e0; body is what the function does after
\* its first statement
GetCells(distance_threshold, e0, body) ==
    LET r == neighborhood_calculator_get_cells(body, e0)
    IN  /\ last_call' = "get_cells"
        /\ cells' = r.ret
        /\ count' = 0
        /\ error_code' = r.error_code
        /\ alloc_failed' = r.heap.failed
        /\ threshold' = distance_threshold
        /\ prev_error' = e0
        /\ UNCHANGED <<grid, create_args, crashed>>

\* count = neighborhood_calculator_count(grid, distance_threshold, &error)
Count(distance_threshold, e0, body) ==
    LET r == neighborhood_calculator_count(
                 neighborhood_calculator_get_cells(body, e0))
    IN  /\ last_call' = "count"
        /\ cells' = NullSet
        /\ count' = r.ret
        /\ error_code' = r.error_code
        /\ alloc_failed' = r.heap.failed
        /\ threshold' = distance_threshold
        /\ prev_error' = e0
        /\ UNCHANGED <<grid, create_args, crashed>>

\* the caller is done with the result: position_set_destroy(cells), and its
\* ErrorCode variable goes out of scope
Release ==
    /\ last_call # "none"
    /\ ~crashed
    /\ last_call' = "none"
    /\ threshold' = 0
    /\ prev_error' = ERROR_NONE
    /\ error_code' = ERROR_NONE
    /\ cells' = NullSet
    /\ count' = 0
    /\ alloc_failed' = FALSE
    /\ UNCHANGED <<grid, create_args, crashed>>
    /\ UNCHANGED <<first, pair, unit, pset>>

\* A calculator call on the caller's grid, whichever of the two it is: both
\* run the same body.
CallSteps(thresholds, failsets) ==
    /\ last_call = "none"
    /\ \E n \in thresholds :
       \/ \E e0 \in ErrorCode : Crash(n, e0)
       \/ \E fails \in failsets, g \in GridsRead(grid, n) :
          LET body == GetCellsBody(g, n, NewHeap(fails)) IN
          \E e0 \in ErrorCode :
             \/ GetCells(n, e0, body)
             \/ Count(n, e0, body)

Calls(thresholds, failsets) ==
    /\ CallSteps(thresholds, failsets)
    /\ UNCHANGED <<first, pair, unit, pset>>

\* The grid_create calls a caller makes
Creates(heights, widths, maxcells, failsets) ==
    /\ last_call = "none"
    /\ ~create_args.given
    /\ \E height \in heights, width \in widths :
       \E buf \in Buffers(height, width, maxcells), fails \in failsets :
          \/ \E n \in -1..Len(buf) :
                GridCreate(height, width, buf, FALSE, n, fails)
          \/ /\ buf = <<>>
             /\ \E n \in -1..maxcells :
                   GridCreate(height, width, buf, TRUE, n, fails)
    /\ first' = NoFirst
    /\ UNCHANGED <<pair, unit, pset>>

ByHand(heights, widths, maxcells) ==
    /\ last_call = "none"
    /\ ~create_args.given
    /\ \E height \in heights, width \in widths :
       \E buf \in Buffers(height, width, maxcells) :
          GridByHand(height, width, buf)
    /\ first' = NoFirst
    /\ UNCHANGED <<pair, unit, pset>>

Next ==
    \/ Creates(Heights, Widths, MaxCells, FailSets)
    \/ ByHand(Heights, Widths, MaxCells)
    \/ GridDestroy
    \/ Calls(Thresholds, FailSets)
    \/ Release

Spec == Init /\ [][Next]_vars

----------------------------------------------------------------------------
(* One-row grids wide enough for a set to outgrow INITIAL_CAPACITY, with    *)
(* every combination of failing requests among the first WideAllocs.        *)

WideAllocs == 6

WideFailSets == SUBSET (1..WideAllocs)

WideThresholds == -1..WideW

NextWide ==
    \/ Creates({1}, {WideW}, 1, {{}})
    \/ ByHand({0}, {WideW}, 1)
    \/ GridDestroy
    \/ Calls(WideThresholds, WideFailSets)
    \/ Release

SpecWide == Init /\ [][NextWide]_vars

----------------------------------------------------------------------------
(* A caller that keeps the result of its first call on a grid and makes     *)
(* further calls on it, with any thresholds and any value in its ErrorCode  *)
(* variable.                                                                *)

\* A calculator call; the first one made on the grid is kept in first.
CallsTwice(thresholds, failsets) ==
    /\ CallSteps(thresholds, failsets)
    /\ first' = IF first.made THEN first
                ELSE [made |-> TRUE, call |-> last_call', threshold |-> threshold',
                      error_code |-> error_code', cells |-> cells',
                      count |-> count', alloc_failed |-> alloc_failed']
    /\ UNCHANGED <<pair, unit, pset>>

NextTwice ==
    \/ Creates({1, 2}, {2}, 1, {{}})
    \/ ByHand({0}, {2}, 1)
    \/ GridDestroy
    \/ CallsTwice(Thresholds, {{}, {1}})
    \/ Release

SpecTwice == Init /\ [][NextTwice]_vars

----------------------------------------------------------------------------
(* A caller that counts for two positive cells together and for each alone, *)
(* on grids of the same dimensions, with one ErrorCode variable throughout. *)

NotCalled == [called |-> FALSE, ret |-> 0, failed |-> FALSE]

\* dimensions, two in-bounds cells and a threshold >= 0
PairInputs ==
    UNION {[running : {TRUE}, height : {height}, width : {width},
            a : CellDomain(height, width) \cap [row : 0..(height - 1),
                                                column : 0..(width - 1)],
            b : CellDomain(height, width) \cap [row : 0..(height - 1),
                                                column : 0..(width - 1)],
            n : 0..MaxN, error_code : {ERROR_NONE},
            count1 : {NotCalled}, count2 : {NotCalled}, total_count : {NotCalled}]
           : height \in 1..MaxH, width \in 1..MaxW}

InitPair ==
    /\ CallerInit
    /\ pair \in PairInputs
    /\ unit = Idle
    /\ pset = Idle

\* g = grid_create(height, width, buf, Len(buf));
\* which = neighborhood_calculator_count(g, n, &error_code); grid_destroy(g)
PairCount(which, buf, fails) ==
    /\ ~pair[which].called
    /\ LET g == grid_create(pair.height, pair.width, buf, FALSE, Len(buf),
                            NewHeap({})).grid
           r == neighborhood_calculator_count(
                    neighborhood_calculator_get_cells(
                        GetCellsBody(g, pair.n, NewHeap(fails)), pair.error_code))
       IN  pair' = [pair EXCEPT ![which] = [called |-> TRUE, ret |-> r.ret,
                                            failed |-> r.heap.failed],
                                !.error_code = r.error_code]
    /\ UNCHANGED <<callerVars, first, unit, pset>>

\* count1: the grid holding only a
Count1 == \E fails \in FailSets : PairCount("count1", <<pair.a>>, fails)

\* count2: the grid holding only b
Count2 == \E fails \in FailSets : PairCount("count2", <<pair.b>>, fails)

\* total_count: the grid holding both
TotalCount ==
    \E fails \in FailSets : PairCount("total_count", <<pair.a, pair.b>>, fails)

NextPair == Count1 \/ Count2 \/ TotalCount

SpecPair == InitPair /\ [][NextPair]_vars

----------------------------------------------------------------------------
(* A caller that asks both bounds predicates about one position of one grid *)

NotChecked == [called |-> FALSE, ret |-> FALSE]

\* a Grid* as the predicates see it: NULL, or a struct with any dimensions
BoundsGrids ==
    {NullGrid} \cup
    {[isnull |-> FALSE, height |-> height, width |-> width,
      positive_cells |-> <<>>, cells_null |-> TRUE, positive_cell_count |-> 0]
     : height \in Heights, width \in Widths}

\* positions from two below the origin to one past the largest grid
BoundsPositions ==
    {position_create(row, column) : row \in -2..(MaxH + 1),
                                    column \in -2..(MaxW + 1)}

InitBounds ==
    /\ CallerInit
    /\ pair = Idle
    /\ pset = Idle
    /\ unit \in [running : {TRUE}, g : BoundsGrids, pos : BoundsPositions,
                  is_valid : {NotChecked}, within : {NotChecked}]

\* is_valid = grid_is_valid_position(g, pos)
IsValidPosition ==
    /\ ~unit.is_valid.called
    /\ unit' = [unit EXCEPT !.is_valid =
                    [called |-> TRUE, ret |-> grid_is_valid_position(unit.g, unit.pos)]]
    /\ UNCHANGED <<callerVars, first, pair, pset>>

\* within = boundary_handler_is_within_bounds(pos, g)
IsWithinBounds ==
    /\ ~unit.within.called
    /\ unit' = [unit EXCEPT !.within =
                    [called |-> TRUE,
                     ret |-> boundary_handler_is_within_bounds(unit.pos, unit.g)]]
    /\ UNCHANGED <<callerVars, first, pair, pset>>

NextBounds == IsValidPosition \/ IsWithinBounds

SpecBounds == InitBounds /\ [][NextBounds]_vars

----------------------------------------------------------------------------
(* A caller that measures the distance of two positions both ways and       *)
(* compares them                                                            *)

NotMeasured == [called |-> FALSE, ret |-> 0]

IntPositions == {position_create(row, column) : row, column \in INT_MIN..INT_MAX}

InitDistance ==
    /\ CallerInit
    /\ pair = Idle
    /\ pset = Idle
    /\ unit \in [running : {TRUE}, pos1 : IntPositions, pos2 : IntPositions,
                  distance : {NotMeasured}, reverse : {NotMeasured},
                  equals : {NotChecked}, trapped : {FALSE}]

\* distance = position_manhattan_distance(pos1, pos2)
ManhattanDistance ==
    /\ ~unit.trapped /\ ~unit.distance.called
    /\ unit' = [unit EXCEPT !.distance =
                    [called |-> TRUE,
                     ret |-> position_manhattan_distance(unit.pos1, unit.pos2)]]
    /\ UNCHANGED <<callerVars, first, pair, pset>>

\* reverse = position_manhattan_distance(pos2, pos1)
ManhattanReverse ==
    /\ ~unit.trapped /\ ~unit.reverse.called
    /\ unit' = [unit EXCEPT !.reverse =
                    [called |-> TRUE,
                     ret |-> position_manhattan_distance(unit.pos2, unit.pos1)]]
    /\ UNCHANGED <<callerVars, first, pair, pset>>

\* the overflowing step of either call traps: the program ends
ManhattanTraps ==
    /\ ~unit.trapped
    /\ ~unit.distance.called \/ ~unit.reverse.called
    /\ ManhattanOverflows(unit.pos1, unit.pos2)
    /\ unit' = [unit EXCEPT !.trapped = TRUE]
    /\ UNCHANGED <<callerVars, first, pair, pset>>

\* equals = position_equals(pos1, pos2)
PositionEquals ==
    /\ ~unit.trapped /\ ~unit.equals.called
    /\ unit' = [unit EXCEPT !.equals =
                    [called |-> TRUE, ret |-> position_equals(unit.pos1, unit.pos2)]]
    /\ UNCHANGED <<callerVars, first, pair, pset>>

NextDistance ==
    ManhattanDistance \/ ManhattanReverse \/ ManhattanTraps \/ PositionEquals

SpecDistance == InitDistance /\ [][NextDistance]_vars

----------------------------------------------------------------------------
(* A caller of position_set_add and position_set_clear on one PositionSet.  *)
(* asked: the positions given to position_set_add since the set was made or *)
(* last cleared; any_failed: a reallocation has failed since it was made.   *)

\* the positions a PositionSet holds
Elements(set) == {set.positions[i] : i \in 1..set.size}

\* position_set_create() followed by position_set_add of the first k cells of
\* row 0, in column order
Prefilled(k) ==
    FillCols([NullGrid EXCEPT !.isnull = FALSE, !.height = 1, !.width = k], 0, 0,
             position_set_create(NewHeap({}))).set

\* the positions the caller adds next: the first cell of row 0, the first
\* cell of row 0 past those added in order, and a cell of another row
AddCandidates(set) ==
    {position_create(0, 0), position_create(0, set.size), position_create(1, 0)}

InitSet ==
    /\ CallerInit
    /\ pair = Idle
    /\ unit = Idle
    /\ pset \in {[running |-> TRUE, set |-> Prefilled(k), before |-> Prefilled(k),
                   op |-> "create", pos |-> position_create(0, 0),
                   added |-> FALSE, failed |-> FALSE, ops |-> 0,
                   asked |-> Elements(Prefilled(k)), any_failed |-> FALSE]
                  : k \in 0..WideW}

\* added = position_set_add(set, pos); fails: whether a realloc would fail
SetAdd(pos, fails) ==
    /\ pset.ops < MaxOps
    /\ LET r == position_set_add(pset.set, pos, NewHeap(fails))
       IN  pset' = [pset EXCEPT !.set = r.set, !.before = pset.set, !.op = "add",
                                !.pos = pos, !.added = r.added,
                                !.failed = r.heap.failed, !.ops = @ + 1,
                                !.asked = @ \cup {pos},
                                !.any_failed = @ \/ r.heap.failed]
    /\ UNCHANGED <<callerVars, first, pair, unit>>

\* position_set_clear(set)
SetClear ==
    /\ pset.ops < MaxOps
    /\ pset' = [pset EXCEPT !.set = position_set_clear(pset.set),
                            !.before = pset.set, !.op = "clear", !.added = FALSE,
                            !.failed = FALSE, !.ops = @ + 1, !.asked = {}]
    /\ UNCHANGED <<callerVars, first, pair, unit>>

NextSet ==
    \/ \E pos \in AddCandidates(pset.set), fails \in {{}, {1}} : SetAdd(pos, fails)
    \/ SetClear

SpecSet == InitSet /\ [][NextSet]_vars

----------------------------------------------------------------------------
(* A caller that builds a grid from a buffer of its own, queries the grid,  *)
(* then overwrites or frees the buffer and queries the grid again.  Memory  *)
(* is two blocks: the caller's buffer and the block grid_create allocates.  *)

\* mutant: the grid keeps the caller's pointer instead of a block of its own
positive_cells_block_Alias == "caller"

\* the block grid->positive_cells points to after grid_create
positive_cells_block == "grid"

NotQueried ==
    [done |-> FALSE, valid |-> FALSE, cells |-> NullSet,
     error_code |-> ERROR_NONE, count |-> 0]

\* a grid two columns wide and a buffer of one or more positions, all of
\* which grid_create copies
CopyInputs ==
    UNION {[running : {TRUE}, phase : {"start"}, height : {height}, width : {2},
            buf : Buffers(height, 2, MaxCells) \ {<<>>}, n : 0..MaxN,
            g : {NullGrid}, mem : {[caller |-> <<>>, grid |-> <<>>]},
            freed : {FALSE}, before : {NotQueried}, after : {NotQueried}]
           : height \in 1..MaxH}

InitCopy ==
    /\ CallerInit
    /\ pair = Idle
    /\ pset = Idle
    /\ unit \in CopyInputs

\* g = grid_create(height, width, buf, Len(buf)): memcpy fills the new block
CopyCreate ==
    /\ unit.phase = "start"
    /\ LET g == grid_create(unit.height, unit.width, unit.buf, FALSE,
                            Len(unit.buf), NewHeap({})).grid
       IN  unit' = [unit EXCEPT !.phase = "created", !.g = g,
                                !.mem = [caller |-> unit.buf,
                                         grid |-> g.positive_cells]]
    /\ UNCHANGED <<callerVars, first, pair, pset>>

\* the Grid as a call reads it: positive_cells is what its block holds now
GridInMemory ==
    [unit.g EXCEPT !.positive_cells = unit.mem[positive_cells_block]]

\* grid_validate_positions(g), neighborhood_calculator_get_cells(g, n, &error)
\* and neighborhood_calculator_count(g, n, &error), one after the other
QueryGrid ==
    LET body == GetCellsBody(GridInMemory, unit.n, NewHeap({}))
        r == neighborhood_calculator_get_cells(body, ERROR_NONE)
        c == neighborhood_calculator_count(r)
    IN  [done |-> TRUE, valid |-> grid_validate_positions(GridInMemory),
         cells |-> r.ret, error_code |-> r.error_code, count |-> c.ret]

QueryBefore ==
    /\ unit.phase = "created" /\ ~unit.before.done
    /\ unit' = [unit EXCEPT !.before = QueryGrid]
    /\ UNCHANGED <<callerVars, first, pair, pset>>

\* what the caller's block may hold after the caller wrote to it, or after
\* free(buf): the same position in every entry
Overwrites(buf) ==
    {[i \in 1..Len(buf) |-> p] :
        p \in {position_create(0, 0), position_create(1, 1),
               position_create(-1, 0)}}

\* buf[i] = ... for every i
BufferWrite ==
    /\ unit.phase = "created" /\ unit.before.done
    /\ \E new \in Overwrites(unit.buf) :
          unit' = [unit EXCEPT !.phase = "changed", !.mem.caller = new]
    /\ UNCHANGED <<callerVars, first, pair, pset>>

\* free(buf): the block's contents are indeterminate from here on
BufferFree ==
    /\ unit.phase = "created" /\ unit.before.done
    /\ \E junk \in Overwrites(unit.buf) :
          unit' = [unit EXCEPT !.phase = "changed", !.mem.caller = junk,
                               !.freed = TRUE]
    /\ UNCHANGED <<callerVars, first, pair, pset>>

QueryAfter ==
    /\ unit.phase = "changed" /\ ~unit.after.done
    /\ unit' = [unit EXCEPT !.after = QueryGrid]
    /\ UNCHANGED <<callerVars, first, pair, pset>>

NextCopy ==
    CopyCreate \/ QueryBefore \/ BufferWrite \/ BufferFree \/ QueryAfter

SpecCopy == InitCopy /\ [][NextCopy]_vars

----------------------------------------------------------------------------
(* A caller that asks for the cells of three grids of the same dimensions:  *)
(* one holding the list p1, one holding p2, one holding p1 followed by p2.  *)

NoCells ==
    [called |-> FALSE, cells |-> NullSet, error_code |-> ERROR_NONE, count |-> 0]

\* the lists of at most two cells of the grid (Position positive_cells[2])
InBoundsLists(height, width) ==
    UNION {[1..k -> {position_create(r, c) : r \in 0..(height - 1),
                                             c \in 0..(width - 1)}]
           : k \in 0..2}

\* dimensions, two lists of in-bounds cells (either may be empty), N >= 0
ListInputs ==
    UNION {[running : {TRUE}, height : {height}, width : {width},
            p1 : InBoundsLists(height, width),
            p2 : InBoundsLists(height, width),
            n : 0..MaxN, r1 : {NoCells}, r2 : {NoCells}, r12 : {NoCells}]
           : height \in 1..2, width \in 1..MaxW}

InitLists ==
    /\ CallerInit
    /\ unit = Idle
    /\ pset = Idle
    /\ pair \in ListInputs

\* g = grid_create(height, width, list, Len(list));
\* which = neighborhood_calculator_get_cells(g, n, &error); the size of the
\* set is what neighborhood_calculator_count returns for the same arguments
ListCells(which, list) ==
    /\ ~pair[which].called
    /\ LET g == grid_create(pair.height, pair.width, list, FALSE, Len(list),
                            NewHeap({})).grid
           r == neighborhood_calculator_get_cells(
                    GetCellsBody(g, pair.n, NewHeap({})), ERROR_NONE)
       IN  pair' = [pair EXCEPT ![which] =
                       [called |-> TRUE, cells |-> r.ret,
                        error_code |-> r.error_code,
                        count |-> neighborhood_calculator_count(r).ret]]
    /\ UNCHANGED <<callerVars, first, unit, pset>>

\* r1: the grid holding p1
Cells1 == ListCells("r1", pair.p1)

\* r2: the grid holding p2, asked after r1
Cells2 == pair.r1.called /\ ListCells("r2", pair.p2)

\* r12: the grid holding p1 ++ p2, asked last
Cells12 == pair.r2.called /\ ListCells("r12", pair.p1 \o pair.p2)

NextLists == Cells1 \/ Cells2 \/ Cells12

SpecLists == InitLists /\ [][NextLists]_vars

----------------------------------------------------------------------------
(* A caller that compares what get_cells returns with what its loop over    *)
(* the positive cells builds for the same grid and threshold.               *)

\* get_cells on a valid grid with a positive cell, without the
\* early-termination branch: the result set is created and the loop over the
\* positive cells runs, whatever the threshold
GeneralPath(g, distance_threshold, h) ==
    CellLoop(g, distance_threshold, 0, KEPT, position_set_create(h))

\* a valid grid with at least one positive cell and a threshold from 0 to
\* past the largest diameter
PathInputs ==
    UNION {[running : {TRUE}, height : {height}, width : {width},
            buf : InBoundsLists(height, width) \ {<<>>},
            n : 0..(MaxN + 1), actual : {NoCells}, general : {NoCells}]
           : height \in 1..MaxH, width \in 1..MaxW}

InitPaths ==
    /\ CallerInit
    /\ pair = Idle
    /\ pset = Idle
    /\ unit \in PathInputs

\* the grid a caller builds from its height, width and buffer
UnitGrid ==
    grid_create(unit.height, unit.width, unit.buf, FALSE, Len(unit.buf),
                NewHeap({})).grid

\* actual = neighborhood_calculator_get_cells(g, n, &error)
ActualPath ==
    /\ ~unit.actual.called
    /\ LET r == neighborhood_calculator_get_cells(
                    GetCellsBody(UnitGrid, unit.n, NewHeap({})), ERROR_NONE)
       IN  unit' = [unit EXCEPT !.actual =
                       [called |-> TRUE, cells |-> r.ret,
                        error_code |-> r.error_code,
                        count |-> neighborhood_calculator_count(r).ret]]
    /\ UNCHANGED <<callerVars, first, pair, pset>>

\* general = the same call with the early-termination branch taken out
LoopPath ==
    /\ ~unit.general.called
    /\ LET r == neighborhood_calculator_get_cells(
                    GeneralPath(UnitGrid, unit.n, NewHeap({})), ERROR_NONE)
       IN  unit' = [unit EXCEPT !.general =
                       [called |-> TRUE, cells |-> r.ret,
                        error_code |-> r.error_code,
                        count |-> neighborhood_calculator_count(r).ret]]
    /\ UNCHANGED <<callerVars, first, pair, pset>>

NextPaths == ActualPath \/ LoopPath

SpecPaths == InitPaths /\ [][NextPaths]_vars

----------------------------------------------------------------------------
(* neighborhood_calculator_get_cells on valid input, one loop iteration at  *)
(* a time: a row of the early-termination branch, a delta_row of            *)
(* enumerate_neighborhood, the union of one neighborhood.  position_set_add *)
(* only ever appends, so a position stored inside an iteration is still     *)
(* stored when the iteration ends.                                          *)

\* a grid whose positive cells are all inside it, and a threshold >= 0
StepInputs ==
    UNION {[running : {TRUE}, height : {height}, width : {width},
            buf : InBoundsLists(height, width), n : 0..MaxN,
            phase : {"entry"}, i : {0}, row : {0}, delta_row : {0},
            all_cells : {NullSet}, neighborhood : {NullSet}]
           : height \in 1..MaxH, width \in 1..MaxW}

InitSteps ==
    /\ CallerInit
    /\ pair = Idle
    /\ pset = Idle
    /\ unit \in StepInputs

\* lines 40-74: the checks, position_set_create, and the choice of path
StepEnter ==
    /\ unit.phase = "entry"
    /\ unit' =
          IF \/ InvalidGridDimensions(UnitGrid)
             \/ InvalidDistanceThreshold(unit.n)
             \/ ~grid_validate_positions(UnitGrid)
          THEN [unit EXCEPT !.phase = "returned"]
          ELSE [unit EXCEPT
                   !.all_cells = position_set_create(NewHeap({})).set,
                   !.phase = IF EmptyGridCase(UnitGrid) THEN "returned"
                             ELSE IF EarlyTermination(UnitGrid, unit.n)
                             THEN "fill" ELSE "loop"]
    /\ UNCHANGED <<callerVars, first, pair, pset>>

\* lines 74-79: one row of the early-termination branch, or its return
StepFillRow ==
    /\ unit.phase = "fill"
    /\ unit' =
          IF unit.row >= UnitGrid.height
          THEN [unit EXCEPT !.phase = "returned"]
          ELSE [unit EXCEPT
                   !.all_cells = FillCols(UnitGrid, unit.row, 0,
                                          [set |-> unit.all_cells,
                                           heap |-> NewHeap({})]).set,
                   !.row = @ + 1]
    /\ UNCHANGED <<callerVars, first, pair, pset>>

\* lines 83 and 7-8: the next positive cell, its neighborhood set created;
\* or line 104 when there is none left
StepNextCell ==
    /\ unit.phase = "loop"
    /\ unit' =
          IF unit.i >= UnitGrid.positive_cell_count
          THEN [unit EXCEPT !.phase = "returned"]
          ELSE [unit EXCEPT
                   !.neighborhood = position_set_create(NewHeap({})).set,
                   !.delta_row = -unit.n,
                   !.phase = "enumerate"]
    /\ UNCHANGED <<callerVars, first, pair, pset>>

\* lines 10-23: one delta_row of enumerate_neighborhood, or its return
StepEnumRow ==
    /\ unit.phase = "enumerate"
    /\ unit' =
          IF unit.delta_row > unit.n
          THEN [unit EXCEPT !.phase = "union"]
          ELSE LET remaining == remaining_distance(unit.n, unit.delta_row)
               IN  [unit EXCEPT
                       !.neighborhood =
                           EnumCols(UnitGrid.positive_cells[unit.i + 1], UnitGrid,
                                    unit.delta_row, -remaining, remaining,
                                    [set |-> unit.neighborhood,
                                     heap |-> NewHeap({})]).set,
                       !.delta_row = @ + 1]
    /\ UNCHANGED <<callerVars, first, pair, pset>>

\* lines 97-100: the neighborhood is added to all_cells and destroyed
StepUnion ==
    /\ unit.phase = "union"
    /\ unit' = [unit EXCEPT
                   !.all_cells = UnionLoop(unit.neighborhood, 0,
                                           [set |-> unit.all_cells,
                                            heap |-> NewHeap({})]).set,
                   !.neighborhood = NullSet,
                   !.i = @ + 1,
                   !.phase = "loop"]
    /\ UNCHANGED <<callerVars, first, pair, pset>>

NextSteps ==
    StepEnter \/ StepFillRow \/ StepNextCell \/ StepEnumRow \/ StepUnion

SpecSteps == InitSteps /\ [][NextSteps]_vars

\* the steps arrive at what the call returns
StepsAgreeWithCall ==
    (unit.running /\ unit.phase = "returned")
    => unit.all_cells = GetCellsBody(UnitGrid, unit.n, NewHeap({})).ret

----------------------------------------------------------------------------
(* A caller that makes one calculator call and looks at the PositionSets    *)
(* the call has made and destroyed by the time it returns.                  *)

NoBooks ==
    [called |-> FALSE, call |-> "none", ret |-> NullSet,
     error_code |-> ERROR_NONE, made |-> 0, live |-> {}, destroyed |-> <<>>,
     stale |-> FALSE, failed |-> FALSE]

\* grid_create arguments (a height of 0 gives a NULL grid; the buffer may
\* hold positions outside the grid) and any threshold from -1
LifeInputs ==
    UNION {[running : {TRUE}, height : {height}, width : {2},
            buf : Buffers(height, 2, MaxCells), n : -1..MaxN, books : {NoBooks}]
           : height \in 0..2}

InitLife ==
    /\ CallerInit
    /\ pair = Idle
    /\ pset = Idle
    /\ unit \in LifeInputs

\* the books of the heap when the call r has returned
Books(call, r) ==
    [called |-> TRUE, call |-> call,
     ret |-> IF call = "get_cells" THEN r.ret ELSE NullSet,
     error_code |-> r.error_code, made |-> r.heap.made, live |-> r.heap.live,
     destroyed |-> r.heap.destroyed, stale |-> r.heap.stale,
     failed |-> r.heap.failed]

\* cells = neighborhood_calculator_get_cells(grid, n, &error)
LifeGetCells(fails) ==
    /\ ~unit.books.called
    /\ unit' = [unit EXCEPT !.books =
                   Books("get_cells",
                         neighborhood_calculator_get_cells(
                             GetCellsBody(UnitGrid, unit.n, NewHeap(fails)),
                             ERROR_NONE))]
    /\ UNCHANGED <<callerVars, first, pair, pset>>

\* count = neighborhood_calculator_count(grid, n, &error)
LifeCount(fails) ==
    /\ ~unit.books.called
    /\ unit' = [unit EXCEPT !.books =
                   Books("count",
                         neighborhood_calculator_count(
                             neighborhood_calculator_get_cells(
                                 GetCellsBody(UnitGrid, unit.n, NewHeap(fails)),
                                 ERROR_NONE)))]
    /\ UNCHANGED <<callerVars, first, pair, pset>>

\* no request fails, or one of the first WideAllocs does
LifeFailSets == {{}} \cup {{k} : k \in 1..WideAllocs}

NextLife ==
    \E fails \in LifeFailSets : LifeGetCells(fails) \/ LifeCount(fails)

SpecLife == InitLife /\ [][NextLife]_vars

----------------------------------------------------------------------------
(* What the claims speak of *)

\* a calculator call has returned to the caller
Returned == last_call \in {"get_cells", "count"}

\* the array holds exactly positive_cell_count entries
WellFormed(g) ==
    ~g.isnull /\ g.positive_cell_count = Len(g.positive_cells)

InBounds(g, pos) ==
    0 <= pos.row /\ pos.row < g.height /\ 0 <= pos.column /\ pos.column < g.width

AllInBounds(g) ==
    \A i \in 1..Len(g.positive_cells) : InBounds(g, g.positive_cells[i])

\* positive dimensions, well formed, every stored positive cell in bounds
ValidGrid(g) ==
    WellFormed(g) /\ g.height > 0 /\ g.width > 0 /\ AllInBounds(g)

GridCells(g) ==
    {position_create(r, c) : r \in 0..(g.height - 1), c \in 0..(g.width - 1)}

Manhattan(p, q) ==
    (IF p.row >= q.row THEN p.row - q.row ELSE q.row - p.row)
    + (IF p.column >= q.column THEN p.column - q.column ELSE q.column - p.column)

\* the cells of the grid within distance n of some positive cell
WithinDistance(g, n) ==
    {p \in GridCells(g) :
        \E i \in 1..Len(g.positive_cells) : Manhattan(g.positive_cells[i], p) <= n}

NoDuplicates(set) ==
    \A i, j \in 1..set.size :
        i # j => ~(set.positions[i].row = set.positions[j].row
                   /\ set.positions[i].column = set.positions[j].column)

\* a call on a valid grid with a threshold >= 0 in which no allocation failed
ValidCall == Returned /\ ValidGrid(grid) /\ threshold >= 0 /\ ~alloc_failed

Diameter(g) == (g.height - 1) + (g.width - 1)

----------------------------------------------------------------------------
(* C1: on a valid grid with N >= 0 (and no allocation failing), get_cells    *)
(* succeeds and returns exactly the in-bounds cells within Manhattan         *)
(* distance N of some positive cell, on the general and the fast path.      *)
C1_ExactNeighborhood ==
    (ValidCall /\ last_call = "get_cells")
    => /\ ~cells.isnull
       /\ error_code = ERROR_NONE
       /\ Elements(cells) = WithinDistance(grid, threshold)

\* general path, two positive cells, a result clipped by an edge that is
\* neither the positive cells alone nor the whole grid
C1_Witness ==
    /\ ValidCall /\ last_call = "get_cells"
    /\ threshold >= 1 /\ threshold < Diameter(grid)
    /\ grid.positive_cell_count = 2
    /\ grid.positive_cells[1] # grid.positive_cells[2]
    /\ Cardinality(Elements(cells)) > 2
    /\ Cardinality(Elements(cells)) < grid.height * grid.width
    /\ \E i \in 1..2 : grid.positive_cells[i].row - threshold < 0

(* C2: the set get_cells returns holds no two equal positions, and for a    *)
(* valid grid and N >= 0 its size and the value count returns are both the   *)
(* number of distinct cells in range, however many diamonds a cell lies in. *)
C2_UniqueAndCounted ==
    /\ (last_call = "get_cells" /\ ~cells.isnull) => NoDuplicates(cells)
    /\ (ValidCall /\ last_call = "get_cells")
       => cells.size = Cardinality(WithinDistance(grid, threshold))
    /\ (ValidCall /\ last_call = "count")
       => count = Cardinality(WithinDistance(grid, threshold))

\* a count over two different positive cells whose diamonds share a cell
C2_Witness ==
    /\ ValidCall /\ last_call = "count"
    /\ threshold >= 1 /\ threshold < Diameter(grid)
    /\ grid.positive_cell_count = 2
    /\ grid.positive_cells[1] # grid.positive_cells[2]
    /\ \E p \in GridCells(grid) :
          /\ Manhattan(grid.positive_cells[1], p) <= threshold
          /\ Manhattan(grid.positive_cells[2], p) <= threshold
    /\ count < grid.height * grid.width

(* C3: on a valid grid with at least one positive cell and                  *)
(* N >= (height-1)+(width-1), count returns height*width and get_cells      *)
(* returns every cell of the grid.                                          *)
C3_Saturation ==
    (ValidCall /\ grid.positive_cell_count >= 1 /\ threshold >= Diameter(grid))
    => /\ last_call = "count" => count = grid.height * grid.width
       /\ last_call = "get_cells" => Elements(cells) = GridCells(grid)

\* N exactly the diameter of a grid of more than one row and column
C3_Witness ==
    /\ ValidCall /\ last_call = "count"
    /\ grid.positive_cell_count >= 1
    /\ grid.height >= 2 /\ grid.width >= 2
    /\ threshold = Diameter(grid)
    /\ count = grid.height * grid.width

(* C4: on a grid with positive dimensions and zero positive cells, for any  *)
(* N >= 0, get_cells returns an empty set, count returns 0, and the error   *)
(* code is ERROR_NONE.                                                      *)
C4_NoPositiveCells ==
    (ValidCall /\ grid.positive_cell_count = 0)
    => /\ error_code = ERROR_NONE
       /\ last_call = "get_cells" => (~cells.isnull /\ cells.size = 0)
       /\ last_call = "count" => count = 0

\* N at or past the diameter, where the early-termination branch would apply
C4_Witness ==
    /\ ValidCall /\ last_call = "get_cells"
    /\ grid.positive_cell_count = 0
    /\ grid.height * grid.width > 1
    /\ threshold >= Diameter(grid)
    /\ ~cells.isnull /\ cells.size = 0

(* C5: the checks run in a fixed order and the first that fails decides:    *)
(* grid NULL or a dimension <= 0 gives ERROR_INVALID_GRID_DIMENSIONS; else  *)
(* N < 0 gives ERROR_INVALID_DISTANCE_THRESHOLD; else a stored positive     *)
(* cell out of bounds gives ERROR_POSITION_OUT_OF_BOUNDS.                   *)
C5_ValidationOrder ==
    Returned =>
       IF grid.isnull \/ grid.height <= 0 \/ grid.width <= 0
       THEN error_code = ERROR_INVALID_GRID_DIMENSIONS
       ELSE IF threshold < 0
       THEN error_code = ERROR_INVALID_DISTANCE_THRESHOLD
       ELSE (WellFormed(grid) /\ ~AllInBounds(grid))
            => error_code = ERROR_POSITION_OUT_OF_BOUNDS

\* an out-of-bounds positive cell queried with a negative threshold
C5_Witness ==
    /\ Returned
    /\ ~grid.isnull /\ grid.height > 0 /\ grid.width > 0
    /\ WellFormed(grid) /\ ~AllInBounds(grid)
    /\ threshold < 0
    /\ error_code = ERROR_INVALID_DISTANCE_THRESHOLD

(* C6: whatever the error variable held before the call, get_cells returns  *)
(* NULL (count returns -1) exactly when the variable is left other than     *)
(* ERROR_NONE; a call that succeeds leaves ERROR_NONE, a set (a count >= 0).*)
C6_ErrorIffNoResult ==
    /\ last_call = "get_cells" => (cells.isnull <=> error_code # ERROR_NONE)
    /\ last_call = "count" => /\ (count = -1) <=> (error_code # ERROR_NONE)
                              /\ count >= -1

\* a call that succeeds although the variable held an error when it began
C6_Witness ==
    /\ last_call = "get_cells"
    /\ prev_error = ERROR_POSITION_OUT_OF_BOUNDS
    /\ error_code = ERROR_NONE
    /\ ~cells.isnull /\ cells.size >= 1

(* C7: grid_create with positive dimensions succeeds (if its allocations    *)
(* do) even when a supplied cell is out of bounds; on such a grid, for any  *)
(* N >= 0, get_cells and count fail with ERROR_POSITION_OUT_OF_BOUNDS and   *)
(* return no set; on a grid whose cells are all in bounds they never report *)
(* ERROR_POSITION_OUT_OF_BOUNDS.                                            *)
C7_OutOfBoundsDeferred ==
    /\ (create_args.given /\ ~create_args.by_hand /\ create_args.height > 0
        /\ create_args.width > 0 /\ ~create_args.alloc_failed)
       => ~grid.isnull
    /\ (Returned /\ WellFormed(grid) /\ grid.height > 0 /\ grid.width > 0
        /\ threshold >= 0 /\ ~AllInBounds(grid))
       => /\ error_code = ERROR_POSITION_OUT_OF_BOUNDS
          /\ last_call = "get_cells" => cells.isnull
          /\ last_call = "count" => count = -1
    /\ (Returned /\ WellFormed(grid) /\ AllInBounds(grid))
       => error_code # ERROR_POSITION_OUT_OF_BOUNDS

\* grid_create kept a cell one row above the grid; the later count fails
C7_Witness ==
    /\ last_call = "count" /\ threshold >= 0
    /\ ~grid.isnull /\ ~create_args.by_hand /\ WellFormed(grid)
    /\ \E i \in 1..Len(grid.positive_cells) :
          grid.positive_cells[i].row = grid.height
    /\ error_code = ERROR_POSITION_OUT_OF_BOUNDS
    /\ count = -1

(* C8: an allocation failure during get_cells on valid input makes the call *)
(* fail with ERROR_MEMORY_ALLOCATION; no call reports ERROR_NONE while      *)
(* returning a set that lacks cells because an allocation failed.           *)
C8_AllocationFailureReported ==
    (Returned /\ ValidGrid(grid) /\ threshold >= 0 /\ alloc_failed)
    => error_code = ERROR_MEMORY_ALLOCATION

(* C9: on a valid grid with N >= 0, every stored positive cell is in the    *)
(* set get_cells returns, and count returns at least 1.                     *)
C9_SelfInclusion ==
    (ValidCall /\ grid.positive_cell_count >= 1)
    => /\ last_call = "get_cells"
          => \A i \in 1..grid.positive_cell_count :
                position_set_contains(cells, grid.positive_cells[i])
       /\ last_call = "count" => count >= 1

\* threshold 0 on the general path: the set is the positive cells themselves
C9_Witness ==
    /\ ValidCall /\ last_call = "get_cells"
    /\ threshold = 0 /\ Diameter(grid) > 0
    /\ grid.positive_cell_count = 2
    /\ grid.positive_cells[1] # grid.positive_cells[2]
    /\ cells.size = 2

\* the radius-n diamond around c lies inside the grid
DiamondFits(g, c, n) ==
    /\ c.row - n >= 0 /\ c.row + n < g.height
    /\ c.column - n >= 0 /\ c.column + n < g.width

Diamond(c, n) ==
    {position_create(c.row + dr, c.column + dc) :
        dr \in -n..n, dc \in -n..n} \cap
    {p \in [row : (c.row - n)..(c.row + n), column : (c.column - n)..(c.column + n)] :
        Manhattan(c, p) <= n}

(* C10: with a single positive cell c whose radius-N diamond fits in the    *)
(* grid, get_cells returns (N+1)^2 + N^2 cells, exactly the positions       *)
(* (c.row + dr, c.column + dc) with |dr| + |dc| <= N.                       *)
C10_CompleteDiamond ==
    (ValidCall /\ last_call = "get_cells" /\ grid.positive_cell_count = 1
     /\ DiamondFits(grid, grid.positive_cells[1], threshold))
    => /\ cells.size = (threshold + 1) * (threshold + 1) + threshold * threshold
       /\ Elements(cells) = Diamond(grid.positive_cells[1], threshold)

\* a diamond of radius 1 or more
C10_Witness ==
    /\ ValidCall /\ last_call = "get_cells"
    /\ grid.positive_cell_count = 1
    /\ threshold >= 1
    /\ DiamondFits(grid, grid.positive_cells[1], threshold)
    /\ cells.size = 5

\* the three counts have been taken and no allocation failed in any of them
PairCounted ==
    /\ pair.running
    /\ pair.count1.called /\ ~pair.count1.failed
    /\ pair.count2.called /\ ~pair.count2.failed
    /\ pair.total_count.called /\ ~pair.total_count.failed

\* the radius-n diamonds of a and b share a position
DiamondsIntersect == Manhattan(pair.a, pair.b) <= 2 * pair.n

(* C11: for two in-bounds positive cells whose radius-N diamonds do not     *)
(* intersect (distance > 2N), count on the grid holding both is the sum of  *)
(* the counts on the grids holding each alone, clipped diamonds included.   *)
C11_DisjointAdditive ==
    (PairCounted /\ ~DiamondsIntersect)
    => pair.total_count.ret = pair.count1.ret + pair.count2.ret

\* N >= 1, disjoint diamonds, the diamond of a clipped by an edge
C11_Witness ==
    /\ PairCounted /\ ~DiamondsIntersect
    /\ pair.n >= 1
    /\ pair.count1.ret < (pair.n + 1) * (pair.n + 1) + pair.n * pair.n
    /\ pair.total_count.ret = pair.count1.ret + pair.count2.ret
    /\ pair.total_count.ret < pair.height * pair.width

(* C12: for two in-bounds positive cells whose radius-N diamonds intersect  *)
(* (distance <= 2N, a = b included), count on the grid holding both is      *)
(* strictly less than the sum of the counts on the grids holding each       *)
(* alone, near edges and on the early-termination path as well.             *)
C12_OverlapStrictlyLess ==
    (PairCounted /\ DiamondsIntersect)
    => pair.total_count.ret < pair.count1.ret + pair.count2.ret

\* two different cells on the loop path whose diamonds overlap
C12_Witness ==
    /\ PairCounted /\ DiamondsIntersect
    /\ pair.a # pair.b
    /\ pair.n < (pair.height - 1) + (pair.width - 1)
    /\ pair.total_count.ret > pair.count1.ret
    /\ pair.total_count.ret > pair.count2.ret
    /\ pair.total_count.ret < pair.count1.ret + pair.count2.ret

\* the distinct positions among the stored positive cells
DistinctPositive(g) == {g.positive_cells[i] : i \in 1..Len(g.positive_cells)}

(* C13: on a valid grid with N = 0, count is the number of distinct          *)
(* positions among the stored positive cells (a repeated cell counts once), *)
(* also on a 1x1 grid, where N = 0 reaches the early-termination branch.    *)
C13_ZeroThreshold ==
    (ValidCall /\ last_call = "count" /\ threshold = 0)
    => count = Cardinality(DistinctPositive(grid))

\* a 1x1 grid holding its only cell twice
C13_Witness ==
    /\ ValidCall /\ last_call = "count" /\ threshold = 0
    /\ grid.height = 1 /\ grid.width = 1
    /\ grid.positive_cell_count = 2
    /\ count = 1

(* C14: grid_create returns a grid exactly when height > 0 and width > 0    *)
(* (its allocations succeeding), and the grid's height and width are the    *)
(* arguments.                                                               *)
C14_GridCreateIffPositive ==
    (create_args.given /\ ~create_args.by_hand /\ ~create_args.alloc_failed)
    => /\ ~grid.isnull <=> (create_args.height > 0 /\ create_args.width > 0)
       /\ ~grid.isnull => /\ grid.height = create_args.height
                          /\ grid.width = create_args.width

\* a grid of unequal dimensions was returned
C14_Witness ==
    /\ create_args.given /\ ~create_args.by_hand /\ ~create_args.alloc_failed
    /\ ~grid.isnull
    /\ create_args.height # create_args.width
    /\ grid.height = create_args.height /\ grid.width = create_args.width

(* C15: grid_is_valid_position(grid, pos) is true exactly when              *)
(* 0 <= pos.row < height and 0 <= pos.column < width, for every position,   *)
(* negative coordinates included; a NULL grid has no valid position.        *)
C15_ValidPositionIffInBounds ==
    (unit.running /\ unit.is_valid.called)
    => unit.is_valid.ret <=> (~unit.g.isnull /\ InBounds(unit.g, unit.pos))

\* the last cell of a grid is valid
C15_Witness ==
    /\ unit.running /\ unit.is_valid.called
    /\ ~unit.g.isnull /\ unit.g.height >= 2 /\ unit.g.width >= 2
    /\ unit.pos = position_create(unit.g.height - 1, unit.g.width - 1)
    /\ unit.is_valid.ret

(* C16: for every grid and position, boundary_handler_is_within_bounds(pos, *)
(* grid) returns what grid_is_valid_position(grid, pos) returns.            *)
C16_BoundaryHandlerAgrees ==
    (unit.running /\ unit.is_valid.called /\ unit.within.called)
    => unit.within.ret = unit.is_valid.ret

\* both refuse the position one column past the last of its row
C16_Witness ==
    /\ unit.running /\ unit.is_valid.called /\ unit.within.called
    /\ ~unit.g.isnull /\ unit.g.height >= 1 /\ unit.g.width >= 1
    /\ unit.pos = position_create(unit.g.height - 1, unit.g.width)
    /\ ~unit.within.ret /\ ~unit.is_valid.ret

(* C17: for all positions a and b, of any int row and column values,        *)
(* position_manhattan_distance(a, b) is |a.row - b.row| +                   *)
(* |a.column - b.column| and is non-negative.                               *)
C17_DistanceFormula ==
    (unit.running /\ unit.distance.called)
    => /\ unit.distance.ret = Manhattan(unit.pos1, unit.pos2)
       /\ unit.distance.ret >= 0

(* C18: for all positions a and b, position_manhattan_distance(a, b) =      *)
(* position_manhattan_distance(b, a), and the distance is 0 exactly when    *)
(* position_equals(a, b).                                                   *)
C18_SymmetricZeroIffEqual ==
    /\ (unit.running /\ unit.distance.called /\ unit.reverse.called)
       => unit.distance.ret = unit.reverse.ret
    /\ (unit.running /\ unit.distance.called /\ unit.equals.called)
       => (unit.distance.ret = 0 <=> unit.equals.ret)

\* positions whose membership is looked at: two rows, to one column past any
\* position added
ProbePositions ==
    {position_create(row, column) : row \in 0..1, column \in 0..(WideW + MaxOps)}

\* the stored positions, in order
Stored(set) == SubSeq(set.positions, 1, set.size)

(* C19: position_set_add(set, pos), no reallocation failing, returns true   *)
(* exactly when pos was not contained before; then the size grows by one    *)
(* and pos is contained; when pos was contained, size and contents are      *)
(* unchanged; membership of every other position is unchanged.              *)
C19_AddReturnsWhetherNew ==
    (pset.running /\ pset.op = "add" /\ ~pset.failed)
    => /\ pset.added <=> pset.pos \notin Elements(pset.before)
       /\ pset.added => /\ pset.set.size = pset.before.size + 1
                        /\ pset.pos \in Elements(pset.set)
       /\ pset.pos \in Elements(pset.before)
          => /\ pset.set.size = pset.before.size
             /\ Stored(pset.set) = Stored(pset.before)
       /\ \A q \in ProbePositions \ {pset.pos} :
             q \in Elements(pset.set) <=> q \in Elements(pset.before)

\* an add to a full set: the storage grows and the position is stored
C19_Witness ==
    /\ pset.running /\ pset.op = "add" /\ ~pset.failed
    /\ pset.before.size = pset.before.capacity
    /\ pset.added
    /\ pset.set.size = INITIAL_CAPACITY + 1
    /\ pset.set.capacity = 2 * INITIAL_CAPACITY

\* a later call of the same function with the same threshold as the first
\* call made on the grid, no allocation failing in either
SameCallAgain ==
    /\ Returned /\ first.made
    /\ first.call = last_call /\ first.threshold = threshold
    /\ ~first.alloc_failed /\ ~alloc_failed

C21_StoredCellsAreACopy ==
    (unit.running /\ unit.phase = "changed")
    => /\ GridInMemory.positive_cells = unit.buf
       /\ unit.after.done
          => /\ unit.after.valid = unit.before.valid
             /\ unit.after.error_code = unit.before.error_code
             /\ unit.after.count = unit.before.count
             /\ unit.after.cells.isnull = unit.before.cells.isnull
             /\ Elements(unit.after.cells) = Elements(unit.before.cells)

\* the buffer was freed and holds other positions; the grid still answers
\* with the cells around the original ones
C21_Witness ==
    /\ unit.running /\ unit.phase = "changed" /\ unit.after.done
    /\ unit.freed
    /\ unit.mem.caller # unit.buf
    /\ unit.after.valid /\ unit.n >= 1
    /\ unit.after.count >= 2
    /\ unit.after.count = unit.before.count

\* both single-list results are in and every call succeeded
ListsAsked == pair.running /\ pair.r1.called /\ pair.r2.called

(* C22: on valid grids of the same dimensions and N >= 0, get_cells and     *)
(* count depend only on the set of distinct positive cells: two lists with  *)
(* the same distinct cells, in another order or with a cell repeated, give  *)
(* the same set of cells and the same count.                                *)
C22_OrderAndRepeatsIrrelevant ==
    (ListsAsked /\ DistinctPositive([positive_cells |-> pair.p1])
                   = DistinctPositive([positive_cells |-> pair.p2]))
    => /\ ~pair.r1.cells.isnull /\ ~pair.r2.cells.isnull
       /\ Elements(pair.r1.cells) = Elements(pair.r2.cells)
       /\ pair.r1.count = pair.r2.count

\* <<a, b>> against <<b, a>> on the loop path, the result not the whole grid
C22_Witness ==
    /\ ListsAsked
    /\ Len(pair.p1) = 2 /\ pair.p1[1] # pair.p1[2]
    /\ pair.p2 = <<pair.p1[2], pair.p1[1]>>
    /\ pair.n >= 1 /\ pair.n < (pair.height - 1) + (pair.width - 1)
    /\ pair.r1.cells.positions # pair.r2.cells.positions
    /\ pair.r1.count = pair.r2.count
    /\ pair.r1.count < pair.height * pair.width

(* C23: on a valid grid with at least one positive cell and                 *)
(* N >= (height-1)+(width-1), the set the early-termination branch builds   *)
(* equals, as a set, what the loop over the positive cells builds for the   *)
(* same input: taking the branch out would not change the result.           *)
C23_FastPathEqualsGeneralPath ==
    (unit.running /\ unit.actual.called /\ unit.general.called
     /\ unit.n >= (unit.height - 1) + (unit.width - 1))
    => /\ unit.actual.cells.isnull = unit.general.cells.isnull
       /\ Elements(unit.actual.cells) = Elements(unit.general.cells)
       /\ unit.actual.count = unit.general.count
       /\ unit.actual.error_code = unit.general.error_code

\* N exactly the diameter, one positive cell in a corner of a grid of several
\* rows and columns: only the whole diamond reaches the opposite corner
C23_Witness ==
    /\ unit.running /\ unit.actual.called /\ unit.general.called
    /\ unit.n = (unit.height - 1) + (unit.width - 1)
    /\ unit.height >= 2 /\ unit.width >= 2
    /\ unit.buf = <<position_create(unit.height - 1, unit.width - 1)>>
    /\ unit.actual.count = unit.height * unit.width
    /\ Elements(unit.general.cells) = Elements(unit.actual.cells)
    /\ unit.general.count = unit.actual.count

\* p is a cell of the grid within distance n of a positive cell in cs: no
\* coordinate was taken modulo the height or the width
InGridNear(p, cs) ==
    /\ 0 <= p.row /\ p.row < unit.height
    /\ 0 <= p.column /\ p.column < unit.width
    /\ \E c \in cs : Manhattan(c, p) <= unit.n

(* C24: at every step of get_cells on valid input, every position in the    *)
(* accumulating result set and in the neighborhood set being built has      *)
(* 0 <= row < height and 0 <= column < width and lies within distance N of  *)
(* its positive cell: a candidate outside the grid is never inserted and    *)
(* never wrapped around to the opposite edge.                               *)
C24_OnlyInBoundsStored ==
    unit.running
    => /\ \A p \in Elements(unit.all_cells) :
             InGridNear(p, {unit.buf[k] : k \in 1..Len(unit.buf)})
       /\ \A p \in Elements(unit.neighborhood) :
             InGridNear(p, {unit.buf[unit.i + 1]})

\* a neighborhood half built around a cell on the top edge: the rows above
\* the grid gave nothing, the cell's own row is stored
C24_Witness ==
    /\ unit.running /\ unit.phase = "enumerate"
    /\ unit.n >= 1
    /\ unit.buf[unit.i + 1].row = 0
    /\ unit.delta_row = 1
    /\ unit.buf[unit.i + 1] \in Elements(unit.neighborhood)
    /\ \A p \in Elements(unit.neighborhood) : p.row = 0
    /\ unit.i = 1 /\ unit.all_cells.size >= 2

(* C25: after any sequence of position_set_add and position_set_clear calls *)
(* on a set made by position_set_create, no allocation failing, the array   *)
(* holds no two equal positions, position_set_size is the number of         *)
(* distinct positions added since the last clear (or since creation), and   *)
(* position_set_contains is true exactly for those; after a clear the size  *)
(* is 0 and nothing is contained.                                           *)
C25_SetInvariants ==
    (pset.running /\ ~pset.any_failed)
    => /\ NoDuplicates(pset.set)
       /\ position_set_size(pset.set) = Cardinality(pset.asked)
       /\ \A q \in ProbePositions :
             position_set_contains(pset.set, q) <=> q \in pset.asked
       /\ pset.op = "clear"
          => /\ position_set_size(pset.set) = 0
             /\ \A q \in ProbePositions : ~position_set_contains(pset.set, q)

\* a set that had outgrown its first array was cleared and given one
\* position: the old entries are still in the array, past size
C25_Witness ==
    /\ pset.running /\ ~pset.any_failed
    /\ pset.op = "add" /\ pset.added
    /\ pset.set.size = 1
    /\ Len(pset.set.positions) > INITIAL_CAPACITY
    /\ pset.asked = {pset.pos}
    /\ position_set_contains(pset.set, pset.pos)
    /\ ~position_set_contains(pset.set, pset.set.positions[2])

\* the call was given a NULL grid, a dimension <= 0 or a threshold < 0
InvalidInput == InvalidGridDimensions(grid) \/ InvalidDistanceThreshold(threshold)

(* C26: every call of get_cells and count terminates and returns, for every *)
(* grid and every threshold: on invalid input it returns an error without   *)
(* entering a loop (it asks for no memory), and on valid input each loop    *)
(* finishes and the call returns.                                           *)
C26_EveryCallReturns ==
    /\ last_call # "none" => Returned
    /\ (last_call # "none" /\ InvalidInput)
       => /\ error_code \in {ERROR_INVALID_GRID_DIMENSIONS,
                             ERROR_INVALID_DISTANCE_THRESHOLD}
          /\ ~alloc_failed

\* how many times the set numbered id was given to position_set_destroy
TimesDestroyed(id) ==
    Cardinality({k \in 1..Len(unit.books.destroyed) : unit.books.destroyed[k] = id})

(* C27: when get_cells or count returns, on every path (validation errors   *)
(* and allocation failures included), every PositionSet the call made has   *)
(* been destroyed exactly once, except the one set a successful get_cells   *)
(* returns, which is live; no set was used after it was destroyed.          *)
C27_SetsDestroyedOnce ==
    (unit.running /\ unit.books.called)
    => /\ unit.books.live = IF unit.books.ret.isnull THEN {}
                            ELSE {unit.books.ret.id}
       /\ \A id \in 1..unit.books.made :
             TimesDestroyed(id) = IF id \in unit.books.live THEN 0 ELSE 1
       /\ ~unit.books.stale
       /\ unit.books.call = "count" => unit.books.live = {}

\* the second neighborhood cannot be made: the first was destroyed after its
\* union, all_cells is destroyed on the way out, nothing is returned
C27_Witness ==
    /\ unit.running /\ unit.books.called
    /\ unit.books.call = "get_cells"
    /\ unit.books.failed
    /\ unit.books.error_code = ERROR_MEMORY_ALLOCATION
    /\ unit.books.made = 2
    /\ unit.books.destroyed = <<2, 1>>
    /\ unit.books.live = {}
    /\ unit.books.ret.isnull

\* grid_create made the grid, not a caller filling in the struct
MadeByGridCreate == create_args.given /\ ~create_args.by_hand /\ ~grid.isnull

(* C28: every grid grid_create returns is well formed, whatever the         *)
(* positive_cells and positive_cell_count arguments: the count is >= 0 and  *)
(* the array holds exactly that many entries, so no call reads an entry     *)
(* that was not stored, and a grid that stores no positive cell always      *)
(* yields the empty result.                                                 *)
C28_GridWellFormed ==
    MadeByGridCreate
    => /\ grid.positive_cell_count >= 0
       /\ grid.positive_cell_count = Len(grid.positive_cells)
       /\ ~crashed
       /\ (Returned /\ threshold >= 0 /\ ~alloc_failed
           /\ Len(grid.positive_cells) = 0)
          => /\ error_code = ERROR_NONE
             /\ last_call = "get_cells" => (~cells.isnull /\ cells.size = 0)
             /\ last_call = "count" => count = 0

(* C29: for two lists P1 and P2 of in-bounds cells on the same dimensions   *)
(* (either may be empty) and N >= 0, the set get_cells returns for P1 ++ P2 *)
(* is the union of the sets it returns for P1 and for P2; adding positive   *)
(* cells never removes a cell from the result.                              *)
C29_ConcatenationIsUnion ==
    (ListsAsked /\ pair.r12.called)
    => /\ ~pair.r12.cells.isnull
       /\ Elements(pair.r12.cells)
          = Elements(pair.r1.cells) \cup Elements(pair.r2.cells)
       /\ Elements(pair.r1.cells) \subseteq Elements(pair.r12.cells)
       /\ pair.r12.count >= pair.r1.count

\* two non-empty lists on the loop path, neither result containing the other
C29_Witness ==
    /\ ListsAsked /\ pair.r12.called
    /\ pair.p1 # <<>> /\ pair.p2 # <<>>
    /\ pair.n < (pair.height - 1) + (pair.width - 1)
    /\ ~(Elements(pair.r1.cells) \subseteq Elements(pair.r2.cells))
    /\ ~(Elements(pair.r2.cells) \subseteq Elements(pair.r1.cells))
    /\ pair.r12.count > pair.r1.count /\ pair.r12.count > pair.r2.count

\* the capacities a PositionSet can have: INITIAL_CAPACITY doubled k times
Capacities == {INITIAL_CAPACITY * (2 ^ k) : k \in 0..MaxOps}

(* C30: when position_set_add must grow the storage and the reallocation    *)
(* fails, it returns false and leaves size, capacity and stored positions   *)
(* unchanged; in every state of a PositionSet size <= capacity and the      *)
(* capacity is 16 times a power of two that never decreases                 *)
(* (position_set_clear keeps it).                                           *)
C30_FailedGrowthLeavesSet ==
    pset.running
    => /\ (pset.op = "add" /\ pset.failed)
          => /\ ~pset.added
             /\ pset.set = pset.before
       /\ pset.set.size <= pset.set.capacity
       /\ pset.set.capacity \in Capacities
       /\ pset.set.capacity >= pset.before.capacity
       /\ pset.op = "clear" => pset.set.capacity = pset.before.capacity

\* a full set of INITIAL_CAPACITY positions, a new position, realloc fails
C30_Witness ==
    /\ pset.running /\ pset.op = "add" /\ pset.failed
    /\ pset.before.size = INITIAL_CAPACITY
    /\ pset.before.capacity = INITIAL_CAPACITY
    /\ pset.pos \notin Elements(pset.before)
    /\ ~pset.added
    /\ pset.set = pset.before

====
